---------------------------- MODULE Spec2Model ----------------------------
(***************************************************************************)
(* Community Insights bot (src/unnamed/part_000, the second index.ts,      *)
(* lines 425-982): the ingestion endpoint POST /api/mcp/ingest with        *)
(* analyzeFeedbackToolHandler, the shared cache latestAnalysis, the two    *)
(* per-conversation maps userToInsightIndex and userToSearchResults, and   *)
(* the Teams message handler with its navigation commands.                 *)
(*                                                                         *)
(* The first index.ts of the same file (lines 1-424) has the same schemas  *)
(* and the same analyzeFeedbackToolHandler, an ingestion endpoint that     *)
(* caches the items in latestFeedback next to the results in               *)
(* latestAnalysis, and a message handler with /show_insights only; it is   *)
(* the specification SpecCached.                                           *)
(*                                                                         *)
(* Node runs one handler at a time; another handler can only run while the *)
(* first is suspended in an await.  Every action below is the code between *)
(* two awaits of one handler.  The leading await context.send(typing) of   *)
(* the message handler touches no state, so a command's arrival and the    *)
(* code up to its next await are one action.                               *)
(***************************************************************************)
EXTENDS Integers, Sequences, FiniteSets, TLC

VARIABLES
    latestAnalysis,       \* let latestAnalysis: any[]
    latestFeedback,       \* let latestFeedback: any[] (first index.ts only)
    userToInsightIndex,   \* Map<string, number>: a function on the keys present
    userToSearchResults,  \* Map<string, {matches, idx}>: key -> address of the object
    searchObjs,           \* the {matches, idx} objects still referenced, by address
    ingest,               \* the POST /api/mcp/ingest requests, by request number
    inflight,             \* message handlers suspended in an await, by slot
    last                  \* the step just taken: what it sent, and the state before it

vars == <<latestAnalysis, latestFeedback, userToInsightIndex, userToSearchResults,
          searchObjs, ingest, inflight, last>>

-----------------------------------------------------------------------------
(* Bounds *)

\* Number of ingestion requests over a run (they may overlap).
MaxIngests == 2
\* Number of message handlers suspended in an await at the same time.
MaxInFlight == 1

-----------------------------------------------------------------------------
(* JavaScript values.  A string whose characters matter is a sequence of   *)
(* one-character strings.                                                  *)

JUndef == [t |-> "undefined"]
JNull == [t |-> "null"]
JNum(n) == [t |-> "number", v |-> n]
JStr(s) == [t |-> "string", v |-> s]
JObj(f) == [t |-> "object", f |-> f]

\* ('error' in a) of JavaScript: a TypeError unless a is an object.
InThrows(a) == a.t # "object"
HasKey(a, key) == a.t = "object" /\ key \in DOMAIN a.f

\* Reading a.priority: a TypeError for null (and undefined), undefined for
\* any other value without that property.
PropThrows(a) == a.t \in {"null", "undefined"}

-----------------------------------------------------------------------------
(* Feedback items and the input schema *)

\* z.string().url(): the text parses as a URL, i.e. it has a scheme and ':'.
IsUrl(s) == Len(s) >= 2 /\ s[1] # ":" /\ \E i \in 2..Len(s) : s[i] = ":"

\* FeedbackItemSchema
FeedbackItemSchema(item) ==
    /\ item.id.t = "number"
    /\ item.text.t = "string"
    /\ item.source.t = "string"
    /\ \/ item.url.t = "undefined"
       \/ item.url.t = "string" /\ IsUrl(item.url.v)

\* The input schema with only the first item validated.
FirstItemSchema(feedback) ==
    feedback = <<>> \/ FeedbackItemSchema(feedback[1])

\* AnalyzeFeedbackInputSchema.safeParse(req.body).success, for a body whose
\* feedback property is the array feedback.
AnalyzeFeedbackInputSchema(feedback) ==
    \A i \in 1..Len(feedback) : FeedbackItemSchema(feedback[i])

ItemA == [id |-> JNum(1), text |-> JStr(<<"a">>),
          source |-> JStr(<<"S", "O">>), url |-> JStr(<<"h", ":", "q">>)]
ItemB == [id |-> JNum(2), text |-> JStr(<<"b">>),
          source |-> JStr(<<"G", "H">>), url |-> JUndef]
ItemC == [id |-> JNum(3), text |-> JStr(<<"c">>),
          source |-> JStr(<<"B", "o", "t">>), url |-> JUndef]
\* text: z.string() accepts the empty string
ItemEmptyText == [id |-> JNum(4), text |-> JStr(<<>>),
                  source |-> JStr(<<"S", "O">>), url |-> JUndef]
ItemNoText == [id |-> JNum(5), text |-> JUndef,
               source |-> JStr(<<"S", "O">>), url |-> JUndef]
ItemBadUrl == [id |-> JNum(6), text |-> JStr(<<"a">>),
               source |-> JStr(<<"S", "O">>), url |-> JStr(<<"q">>)]
ItemBadId == [id |-> JStr(<<"7">>), text |-> JStr(<<"a">>),
              source |-> JStr(<<"S", "O">>), url |-> JUndef]


\* Request bodies the ingestion endpoint is sent: the feedback array.
Bodies ==
    { <<>>, <<ItemA>>, <<ItemC, ItemB>>, <<ItemEmptyText>>,
      <<ItemA, ItemBadUrl>>, <<ItemNoText>>, <<ItemBadId, ItemB>> }

-----------------------------------------------------------------------------
(* The provider's answer to prompt.send.  Content is a sequence of tokens: *)
(* a code fence (three back-ticks), the word "json", white space, or a     *)
(* text without back-ticks and white space.                                *)

\* The three back-ticks of a code fence, as one token.
Fence == "FENCE"
Space == " "

GoodAnalysis ==
    JObj([painPoints |-> << <<"b", "o", "t">> >>,
          summary |-> <<"B", "o", "t", "s">>, priority |-> "high"])
OtherAnalysis ==
    JObj([painPoints |-> << >>, summary |-> <<"a", "p", "i">>, priority |-> "low"])
UrgentAnalysis ==
    JObj([painPoints |-> << >>, summary |-> <<"b", "o", "t">>, priority |-> "urgent"])
NoPriorityAnalysis ==
    JObj([painPoints |-> << >>, summary |-> <<"b", "o", "t">>])
ErrorKeyAnalysis == JObj([error |-> "model refused"])

\* The texts that are JSON, with the value JSON.parse gives for each.
JsonTexts ==
    ("null" :> JNull) @@ ("7" :> JNum(7)) @@ ("{good}" :> GoodAnalysis)
    @@ ("{other}" :> OtherAnalysis) @@ ("{urgent}" :> UrgentAnalysis)
    @@ ("{nopriority}" :> NoPriorityAnalysis) @@ ("{error}" :> ErrorKeyAnalysis)

Content(c) == [kind |-> "content", content |-> c, message |-> ""]
Throws(m) == [kind |-> "throws", content |-> <<>>, message |-> m]

Replies ==
    { Content(<<>>), Content(<<"oops">>), Content(<<Space>>),
      Throws("rate limit"), Throws(""),
      Content(<<"{good}">>), Content(<<Fence, "json", Space, "{good}", Space, Fence>>),
      Content(<<"{good}", Fence, Fence>>),
      Content(<<"null">>), Content(<<"7">>), Content(<<"{urgent}">>),
      Content(<<"{nopriority}">>), Content(<<"{error}">>) }

\* jsonString.startsWith(fence + 'json')
StartsWithFenceJson(s) == Len(s) >= 2 /\ s[1] = Fence /\ s[2] = "json"
\* jsonString.endsWith(fence)
EndsWithFence(s) == Len(s) >= 1 /\ s[Len(s)] = Fence

RECURSIVE TrimStart(_)
TrimStart(s) ==
    IF Len(s) >= 1 /\ s[1] = Space THEN TrimStart(Tail(s)) ELSE s

RECURSIVE TrimEnd(_)
TrimEnd(s) ==
    IF Len(s) >= 1 /\ s[Len(s)] = Space
    THEN TrimEnd(SubSeq(s, 1, Len(s) - 1)) ELSE s

\* String.prototype.trim
Trim(s) == TrimEnd(TrimStart(s))

\* Lines 537-544: the text handed to JSON.parse.
StripFences(content) ==
    LET s1 == IF StartsWithFenceJson(content)
              THEN SubSeq(content, 3, Len(content)) ELSE content
        s2 == IF EndsWithFence(s1) THEN SubSeq(s1, 1, Len(s1) - 1) ELSE s1
    IN  Trim(s2)

\* JSON.parse(s) returns (rather than throws a SyntaxError).
JsonParses(s) == Len(s) = 1 /\ s[1] \in DOMAIN JsonTexts
JsonParse(s) == JsonTexts[s[1]]

\* One element of analyzedResults: an object, so it has an identity (ref).
MkResult(item, analysis, ref) ==
    [ref |-> ref, originalId |-> item.id, originalSource |-> item.source,
     originalUrl |-> item.url, analysis |-> analysis]

\* The body of the for loop once prompt.send has settled with reply:
\* the results it pushes, the first of them at position n of run gen.
AnalyzeItem(item, reply, gen, n) ==
    IF reply.kind = "throws"
    THEN << MkResult(item,
                JObj([error |-> IF reply.message # "" THEN reply.message
                                ELSE "AI analysis failed"]),
                [gen |-> gen, n |-> n]) >>
    ELSE IF reply.content = <<>>
    THEN << MkResult(item, JObj([error |-> "No AI content"]), [gen |-> gen, n |-> n]) >>
    ELSE LET jsonString == StripFences(reply.content)
             invalid(k) == MkResult(item,
                              JObj([error |-> "AI output not valid JSON",
                                    rawOutput |-> reply.content]),
                              [gen |-> gen, n |-> k])
         IN  IF ~JsonParses(jsonString)
             THEN << invalid(n) >>
             ELSE LET parsedAnalysis == JsonParse(jsonString)
                      pushed == MkResult(item, parsedAnalysis, [gen |-> gen, n |-> n])
                  IN  \* console.log(... parsedAnalysis.priority) is inside the
                      \* inner try: its TypeError lands in catch (parseError)
                      IF PropThrows(parsedAnalysis)
                      THEN << pushed, invalid(n + 1) >>
                      ELSE << pushed >>

-----------------------------------------------------------------------------
(* The output schema *)

Priorities == {"low", "medium", "high"}

\* AnalysisObjectSchema
AnalysisObjectSchema(a) ==
    /\ a.t = "object"
    /\ {"painPoints", "summary", "priority"} \subseteq DOMAIN a.f
    /\ a.f.priority \in Priorities

\* AnalysisErrorSchema
AnalysisErrorSchema(a) == a.t = "object" /\ "error" \in DOMAIN a.f

\* AnalysisResultSchema
AnalysisResultSchema(r) ==
    /\ r.originalId.t = "number"
    /\ r.originalSource.t = "string"
    /\ r.originalUrl.t = "undefined" \/ (r.originalUrl.t = "string" /\ IsUrl(r.originalUrl.v))
    /\ AnalysisObjectSchema(r.analysis) \/ AnalysisErrorSchema(r.analysis)

\* AnalyzeFeedbackOutputSchema.safeParse(output).success
AnalyzeFeedbackOutputSchema(results) ==
    \A i \in 1..Len(results) : AnalysisResultSchema(results[i])


-----------------------------------------------------------------------------
(* Maps, arrays and the objects they hold *)

EmptyMap == [k \in {} |-> 0]
\* Map.prototype.set
MapSet(m, key, v) == (key :> v) @@ m
\* A delete that empties the map.
MapClear(m, key) == EmptyMap
\* Map.prototype.delete
MapDelete(m, key) == [k \in DOMAIN m \ {key} |-> m[k]]
Has(m, key) == key \in DOMAIN m

\* Array.prototype.indexOf, zero-based, by object identity; -1 when absent.
\* The argument is a sequence of at most one result: empty for undefined.
IndexOf(arr, r) ==
    IF r # <<>> /\ \E i \in 1..Len(arr) : arr[i].ref = r[1].ref
    THEN (CHOOSE i \in 1..Len(arr) :
              /\ arr[i].ref = r[1].ref
              /\ \A j \in 1..(i - 1) : arr[j].ref # r[1].ref) - 1
    ELSE -1

\* arr[i] for a zero-based i: a sequence of at most one element.
At(arr, i) == IF i >= 0 /\ i < Len(arr) THEN << arr[i + 1] >> ELSE <<>>

RECURSIVE Filter(_, _)
Filter(arr, keep) ==
    IF arr = <<>> THEN <<>>
    ELSE (IF Head(arr).ref \in keep THEN << Head(arr) >> ELSE <<>>)
         \o Filter(Tail(arr), keep)

\* The search objects still referenced by the map or by a suspended handler.
Collect(objs, map, handlers) ==
    LET live == {map[k] : k \in DOMAIN map}
                \cup {handlers[s].obj : s \in DOMAIN handlers}
    IN  [a \in DOMAIN objs \cap live |-> objs[a]]

\* The address of a new object.
NewAddr(objs) == CHOOSE a \in 1..(Cardinality(DOMAIN objs) + 1) : a \notin DOMAIN objs

-----------------------------------------------------------------------------
(* Text *)

LowerOf ==
    ("B" :> "b") @@ ("S" :> "s") @@ ("O" :> "o") @@ ("G" :> "g") @@ ("H" :> "h")
     @@ ("A" :> "a") @@ ("Q" :> "q")
\* String.prototype.toLowerCase
ToLowerCase(s) ==
    [i \in 1..Len(s) |-> IF s[i] \in DOMAIN LowerOf THEN LowerOf[s[i]] ELSE s[i]]
\* String.prototype.includes
Includes(s, sub) ==
    \E i \in 0..(Len(s) - Len(sub)) : SubSeq(s, i + 1, i + Len(sub)) = sub

\* (v || '') for a string or undefined v
OrEmpty(v) == IF v.t = "string" THEN v.v ELSE <<>>

\* Lines 665-725: createFeedbackAnalysisCard throws a TypeError at
\* analysis.priority.toUpperCase() unless priority is a string.
CardThrows(a) == a.t # "object" \/ "priority" \notin DOMAIN a.f

\* The filter callback without line 789: a result with an error is matched
\* like any other.
MatchesAnyOutcome(r, keyword) ==
    LET a == r.analysis
        feedbackText == OrEmpty(r.originalSource) \o <<Space>> \o OrEmpty(r.originalUrl)
    IN  \/ /\ "summary" \in DOMAIN a.f
           /\ a.f.summary # <<>>
           /\ Includes(ToLowerCase(a.f.summary), keyword)
        \/ /\ "painPoints" \in DOMAIN a.f
           /\ \E i \in 1..Len(a.f.painPoints) :
                 Includes(ToLowerCase(a.f.painPoints[i]), keyword)
        \/ Includes(ToLowerCase(feedbackText), keyword)

\* Lines 787-796: the filter callback of /search_insights, for an analysis
\* that is an object.
Matches(r, keyword) ==
    LET a == r.analysis
        feedbackText == OrEmpty(r.originalSource) \o <<Space>> \o OrEmpty(r.originalUrl)
    IN  /\ "error" \notin DOMAIN a.f
        /\ \/ /\ "summary" \in DOMAIN a.f
              /\ a.f.summary # <<>>
              /\ Includes(ToLowerCase(a.f.summary), keyword)
           \/ /\ "painPoints" \in DOMAIN a.f
              /\ \E i \in 1..Len(a.f.painPoints) :
                    Includes(ToLowerCase(a.f.painPoints[i]), keyword)
           \/ Includes(ToLowerCase(feedbackText), keyword)


-----------------------------------------------------------------------------
(* State *)

Ingests == 1..MaxIngests
Slots == 1..MaxInFlight

\* A request that has not arrived.
IdleIngest ==
    [pc |-> "idle", feedback |-> <<>>, analyzedResults |-> <<>>, i |-> 0,
     replies |-> <<>>, calls |-> 0]
\* A request that has been answered: its locals are gone.
Responded == [IdleIngest EXCEPT !.pc = "responded"]

FreeSlot == [pc |-> "free", key |-> "", obj |-> 0, res |-> <<>>]
Suspended(pc, key, obj, res) == [pc |-> pc, key |-> key, obj |-> obj, res |-> res]

\* The program's state, as recorded in last.before.
Snapshot ==
    [latestAnalysis |-> latestAnalysis, userToInsightIndex |-> userToInsightIndex,
     userToSearchResults |-> userToSearchResults, searchObjs |-> searchObjs,
     ingest |-> ingest, inflight |-> inflight]

NoSnapshot ==
    [latestAnalysis |-> <<>>, userToInsightIndex |-> EmptyMap,
     userToSearchResults |-> EmptyMap, searchObjs |-> EmptyMap,
     ingest |-> [g \in Ingests |-> IdleIngest], inflight |-> [s \in Slots |-> FreeSlot]]

\* No step to look at: the program is between two steps.
Quiet ==
    [act |-> "none", key |-> "", g |-> 0, slot |-> 0, kind |-> "none", card |-> <<>>,
     arg |-> <<>>, keyword |-> <<>>, question |-> "", called |-> FALSE,
     before |-> NoSnapshot]

\* A step of the program by name: the conversation key and the command's
\* argument when it is a step of the message handler.
Step(act, key) ==
    [act |-> act, key |-> key, slot |-> 0, arg |-> <<>>, keyword |-> <<>>,
     question |-> ""]
\* A step of the handler suspended in slot s.
Continue(act, s) == [Step(act, inflight[s].key) EXCEPT !.slot = s]

\* The step being taken: the request g it belongs to when it is a step of the
\* ingestion endpoint, the kind of message (or HTTP answer) it sends and the
\* result whose card the message carries, whether it calls the provider, and
\* the state it started in.
Did(step, g, kind, card, called) ==
    last' = [Quiet EXCEPT !.act = step.act, !.key = step.key, !.slot = step.slot,
                          !.arg = step.arg, !.keyword = step.keyword,
                          !.question = step.question,
                          !.g = g, !.kind = kind, !.card = card,
                          !.called = called, !.before = Snapshot]

Init ==
    /\ latestAnalysis = <<>>
    /\ latestFeedback = <<>>
    /\ userToInsightIndex = EmptyMap
    /\ userToSearchResults = EmptyMap
    /\ searchObjs = EmptyMap
    /\ ingest = [g \in Ingests |-> IdleIngest]
    /\ inflight = [s \in Slots |-> FreeSlot]
    /\ last = Quiet

sessionVars == <<userToInsightIndex, userToSearchResults, searchObjs>>

-----------------------------------------------------------------------------
(* POST /api/mcp/ingest *)

\* Lines 612-623: the request arrives with body.feedback = feedback.  An
\* invalid body is answered 400; otherwise analyzeFeedbackToolHandler runs up
\* to its first await (prompt.send for the first item, or the await of the
\* handler itself when there is no item).  With overlap the request may
\* arrive while the one before it is being handled.
IngestReceive(g, feedback, overlap) ==
    /\ ingest[g].pc = "idle"
    /\ g > 1 => IF overlap THEN ingest[g - 1].pc # "idle"
                ELSE ingest[g - 1].pc = "responded"
    /\ IF ~AnalyzeFeedbackInputSchema(feedback)
       THEN /\ ingest' = [ingest EXCEPT ![g] = Responded]
            /\ Did(Step("IngestReceive", ""), g, "400", <<>>, FALSE)
       ELSE /\ ingest' = [ingest EXCEPT ![g] =
                  [IdleIngest EXCEPT
                      !.pc = IF feedback = <<>> THEN "returning" ELSE "analyzing",
                      !.feedback = feedback,
                      !.i = 1,
                      !.calls = IF feedback = <<>> THEN 0 ELSE 1]]
            /\ Did(Step("IngestReceive", ""), g, "none", <<>>, feedback # <<>>)
    /\ UNCHANGED <<latestAnalysis, sessionVars, inflight>>

\* The analysis loop writing each result into the latest batch as it goes.
ProviderReturnPublishing(g, reply) ==
    LET st == ingest[g]
        pushed == AnalyzeItem(st.feedback[st.i], reply, g, Len(st.analyzedResults) + 1)
        more == st.i < Len(st.feedback)
    IN  /\ st.pc = "analyzing"
        /\ ingest' = [ingest EXCEPT ![g] =
              [st EXCEPT !.analyzedResults = st.analyzedResults \o pushed,
                         !.replies = Append(st.replies, reply),
                         !.i = st.i + 1,
                         !.calls = IF more THEN st.calls + 1 ELSE st.calls,
                         !.pc = IF more THEN "analyzing" ELSE "returning"]]
        /\ latestAnalysis' = st.analyzedResults \o pushed
        /\ Did(Step("ProviderReturn", ""), g, "none", <<>>, more)
        /\ UNCHANGED <<sessionVars, inflight>>

\* The analysis loop giving up the whole request when a call has failed:
\* the request is answered 500 and nothing is published.
ProviderReturnEscalating(g, reply) ==
    LET st == ingest[g]
        pushed == AnalyzeItem(st.feedback[st.i], reply, g, Len(st.analyzedResults) + 1)
        more == st.i < Len(st.feedback)
    IN  /\ st.pc = "analyzing"
        /\ IF reply.kind = "throws"
           THEN /\ ingest' = [ingest EXCEPT ![g] = Responded]
                /\ Did(Step("ProviderReturn", ""), g, "500", <<>>, FALSE)
           ELSE /\ ingest' = [ingest EXCEPT ![g] =
                      [st EXCEPT !.analyzedResults = st.analyzedResults \o pushed,
                                 !.replies = Append(st.replies, reply),
                                 !.i = st.i + 1,
                                 !.calls = IF more THEN st.calls + 1 ELSE st.calls,
                                 !.pc = IF more THEN "analyzing" ELSE "returning"]]
                /\ Did(Step("ProviderReturn", ""), g, "none", <<>>, more)
        /\ UNCHANGED <<latestAnalysis, sessionVars, inflight>>

\* The analysis loop sending an item again when its call has failed.
ProviderReturnRetrying(g, reply) ==
    LET st == ingest[g]
        pushed == AnalyzeItem(st.feedback[st.i], reply, g, Len(st.analyzedResults) + 1)
        more == st.i < Len(st.feedback)
    IN  /\ st.pc = "analyzing"
        /\ IF reply.kind = "throws" /\ st.calls <= Len(st.feedback)
           THEN /\ ingest' = [ingest EXCEPT ![g] =
                      [st EXCEPT !.replies = Append(st.replies, reply),
                                 !.calls = st.calls + 1]]
                /\ Did(Step("ProviderReturn", ""), g, "none", <<>>, TRUE)
           ELSE /\ ingest' = [ingest EXCEPT ![g] =
                      [st EXCEPT !.analyzedResults = st.analyzedResults \o pushed,
                                 !.replies = Append(st.replies, reply),
                                 !.i = st.i + 1,
                                 !.calls = IF more THEN st.calls + 1 ELSE st.calls,
                                 !.pc = IF more THEN "analyzing" ELSE "returning"]]
                /\ Did(Step("ProviderReturn", ""), g, "none", <<>>, more)
        /\ UNCHANGED <<latestAnalysis, sessionVars, inflight>>

\* Lines 533-581: prompt.send for item i settles with reply; the results are
\* pushed and the loop goes on to the next prompt.send, or ends.
ProviderReturn(g, reply) ==
    LET st == ingest[g]
        pushed == AnalyzeItem(st.feedback[st.i], reply, g, Len(st.analyzedResults) + 1)
        more == st.i < Len(st.feedback)
    IN  /\ st.pc = "analyzing"
        /\ ingest' = [ingest EXCEPT ![g] =
              [st EXCEPT !.analyzedResults = st.analyzedResults \o pushed,
                         !.replies = Append(st.replies, reply),
                         !.i = st.i + 1,
                         !.calls = IF more THEN st.calls + 1 ELSE st.calls,
                         !.pc = IF more THEN "analyzing" ELSE "returning"]]
        /\ Did(Step("ProviderReturn", ""), g, "none", <<>>, more)
        /\ UNCHANGED <<latestAnalysis, sessionVars, inflight>>

\* The publication adding the results to the latest batch instead of
\* replacing it.
IngestPublishAppending(g) ==
    LET st == ingest[g]
    IN  /\ st.pc = "returning"
        /\ latestAnalysis' = latestAnalysis \o st.analyzedResults
        /\ userToInsightIndex' = EmptyMap
        /\ userToSearchResults' = EmptyMap
        /\ searchObjs' = Collect(searchObjs, EmptyMap, inflight)
        /\ ingest' = [ingest EXCEPT ![g] = Responded]
        /\ Did(Step("IngestPublish", ""), g,
               IF AnalyzeFeedbackOutputSchema(st.analyzedResults) THEN "200" ELSE "500",
               <<>>, FALSE)
        /\ UNCHANGED inflight

\* The publication without line 626: the search contexts are kept.
IngestPublishKeepingSearches(g) ==
    LET st == ingest[g]
    IN  /\ st.pc = "returning"
        /\ latestAnalysis' = st.analyzedResults
        /\ userToInsightIndex' = EmptyMap
        /\ ingest' = [ingest EXCEPT ![g] = Responded]
        /\ Did(Step("IngestPublish", ""), g,
               IF AnalyzeFeedbackOutputSchema(st.analyzedResults) THEN "200" ELSE "500",
               <<>>, FALSE)
        /\ UNCHANGED <<userToSearchResults, searchObjs, inflight>>

\* Lines 624-633: the handler has returned; the results become the latest
\* batch, both maps are cleared, and the output is validated and answered.
IngestPublish(g) ==
    LET st == ingest[g]
    IN  /\ st.pc = "returning"
        /\ latestAnalysis' = st.analyzedResults
        /\ userToInsightIndex' = EmptyMap
        /\ userToSearchResults' = EmptyMap
        /\ searchObjs' = Collect(searchObjs, EmptyMap, inflight)
        /\ ingest' = [ingest EXCEPT ![g] = Responded]
        /\ Did(Step("IngestPublish", ""), g,
               IF AnalyzeFeedbackOutputSchema(st.analyzedResults) THEN "200" ELSE "500",
               <<>>, FALSE)
        /\ UNCHANGED inflight

\* The step just taken is over; the next one can start.  Node runs a handler
\* to its next await before anything else, so no step starts inside another.
Settle ==
    /\ last.act # "none"
    /\ last' = Quiet
    /\ UNCHANGED <<latestAnalysis, latestFeedback, sessionVars, ingest, inflight>>

IngestStep(bodies, replies, overlap) ==
    /\ last.act = "none"
    /\ \E g \in Ingests :
          \/ \E feedback \in bodies : IngestReceive(g, feedback, overlap)
          \/ \E reply \in replies : ProviderReturn(g, reply)
          \/ IngestPublish(g)
    /\ UNCHANGED latestFeedback

NextIngest == IngestStep(Bodies, Replies, TRUE) \/ Settle

\* The ingestion endpoint alone, with every request body and every answer of
\* the provider, and overlapping requests.
SpecIngest == Init /\ [][NextIngest]_vars

\* The endpoint alone with the scheduling of Node: a handler that can run
\* does run.  A call of the provider settles (Returns), the handler's return
\* is followed by the rest of the endpoint (Publishes), and a step ends.
LiveBodies == { <<ItemA>>, <<ItemC, ItemB>>, <<ItemBadUrl>> }
LiveReplies == { Content(<<"{good}">>), Content(<<>>), Content(<<"oops">>),
                 Throws("rate limit") }

Returns(g) ==
    /\ last.act = "none"
    /\ \E reply \in LiveReplies : ProviderReturn(g, reply)
    /\ UNCHANGED latestFeedback

Publishes(g) ==
    /\ last.act = "none"
    /\ IngestPublish(g)
    /\ UNCHANGED latestFeedback

NextLive == IngestStep(LiveBodies, LiveReplies, TRUE) \/ Settle

SpecLive ==
    /\ Init
    /\ [][NextLive]_vars
    /\ WF_vars(Settle)
    /\ \A g \in Ingests : WF_vars(Returns(g)) /\ WF_vars(Publishes(g))

-----------------------------------------------------------------------------
(* teamsApp.on('message'): the commands of conversation key *)

HasFreeSlot == \E s \in Slots : inflight[s].pc = "free"
FreeSlotId == CHOOSE s \in Slots :
                 inflight[s].pc = "free" /\ \A t \in 1..(s - 1) : inflight[t].pc # "free"

\* The handler sends its last message and returns; with kind "Threw" it
\* throws instead and sends nothing.
Finish(step, kind, card) == Did(step, 0, kind, card, FALSE)

\* The handler sends a message and is suspended in the await of that send
\* with more code to run.
Suspend(step, kind, card, pc, obj, res) ==
    /\ HasFreeSlot
    /\ inflight' = [inflight EXCEPT ![FreeSlotId] = Suspended(pc, step.key, obj, res)]
    /\ Did(step, 0, kind, card, FALSE)

\* The card of a result is built and sent, unless building it throws.
ShowCard(step, r) ==
    IF CardThrows(r.analysis) THEN Finish(step, "Threw", <<>>)
    ELSE Finish(step, "Card", <<r>>)

\* Lines 738-752: /about, /help
About(key) ==
    /\ Finish(Step("About", key), "About", <<>>)
    /\ UNCHANGED <<latestAnalysis, sessionVars, ingest, inflight>>

\* /latest_insight going back to the first result when the cursor is on the
\* last already.
LatestInsightToggling(key) ==
    IF Len(latestAnalysis) = 0
    THEN /\ Finish(Step("LatestInsight", key), "EmptyBatch", <<>>)
         /\ UNCHANGED <<latestAnalysis, sessionVars, ingest, inflight>>
    ELSE LET idx == IF /\ Has(userToInsightIndex, key)
                       /\ userToInsightIndex[key] = Len(latestAnalysis) - 1
                    THEN 0 ELSE Len(latestAnalysis) - 1
         IN  /\ userToInsightIndex' = MapSet(userToInsightIndex, key, idx)
             /\ ShowCard(Step("LatestInsight", key), latestAnalysis[idx + 1])
             /\ UNCHANGED <<latestAnalysis, userToSearchResults, searchObjs,
                            ingest, inflight>>

\* Lines 755-773: /latest_insight
LatestInsight(key) ==
    IF Len(latestAnalysis) = 0
    THEN /\ Finish(Step("LatestInsight", key), "EmptyBatch", <<>>)
         /\ UNCHANGED <<latestAnalysis, sessionVars, ingest, inflight>>
    ELSE LET idx == Len(latestAnalysis) - 1
         IN  /\ userToInsightIndex' = MapSet(userToInsightIndex, key, idx)
             /\ ShowCard(Step("LatestInsight", key), latestAnalysis[idx + 1])
             /\ UNCHANGED <<latestAnalysis, userToSearchResults, searchObjs,
                            ingest, inflight>>

\* /show_insights keeping the cursor the conversation has.
ShowInsightsKeepingCursor(key) ==
    IF Len(latestAnalysis) = 0
    THEN /\ Finish(Step("ShowInsights", key), "EmptyBatch", <<>>)
         /\ UNCHANGED <<latestAnalysis, sessionVars, ingest, inflight>>
    ELSE /\ userToInsightIndex' =
               IF Has(userToInsightIndex, key) THEN userToInsightIndex
               ELSE MapSet(userToInsightIndex, key, 0)
         /\ ShowCard(Step("ShowInsights", key), latestAnalysis[1])
         /\ UNCHANGED <<latestAnalysis, userToSearchResults, searchObjs,
                        ingest, inflight>>

\* /show_insights dropping the conversation's search context.
ShowInsightsForgettingSearch(key) ==
    IF Len(latestAnalysis) = 0
    THEN /\ Finish(Step("ShowInsights", key), "EmptyBatch", <<>>)
         /\ UNCHANGED <<latestAnalysis, sessionVars, ingest, inflight>>
    ELSE /\ userToInsightIndex' = MapSet(userToInsightIndex, key, 0)
         /\ userToSearchResults' = MapDelete(userToSearchResults, key)
         /\ searchObjs' = Collect(searchObjs, userToSearchResults', inflight)
         /\ ShowCard(Step("ShowInsights", key), latestAnalysis[1])
         /\ UNCHANGED <<latestAnalysis, ingest, inflight>>

\* Lines 899-918: /show_insights
ShowInsights(key) ==
    IF Len(latestAnalysis) = 0
    THEN /\ Finish(Step("ShowInsights", key), "EmptyBatch", <<>>)
         /\ UNCHANGED <<latestAnalysis, sessionVars, ingest, inflight>>
    ELSE /\ userToInsightIndex' = MapSet(userToInsightIndex, key, 0)
         /\ ShowCard(Step("ShowInsights", key), latestAnalysis[1])
         /\ UNCHANGED <<latestAnalysis, userToSearchResults, searchObjs,
                        ingest, inflight>>

\* /next_insight without the test of line 921 for an empty batch.
NextInsightOnAnyBatch(key) ==
    LET idx == (IF Has(userToInsightIndex, key)
                THEN userToInsightIndex[key] ELSE 0) + 1
    IN  IF idx >= Len(latestAnalysis)
        THEN /\ Suspend(Step("NextInsight", key), "NoMoreItems", <<>>, "nomore", 0, <<>>)
             /\ UNCHANGED <<latestAnalysis, sessionVars, ingest>>
        ELSE /\ userToInsightIndex' = MapSet(userToInsightIndex, key, idx)
             /\ ShowCard(Step("NextInsight", key), latestAnalysis[idx + 1])
             /\ UNCHANGED <<latestAnalysis, userToSearchResults, searchObjs,
                            ingest, inflight>>

\* Lines 920-948: /next_insight, up to the await of the 'No more insights'
\* message or to the end
NextInsight(key) ==
    IF Len(latestAnalysis) = 0
    THEN /\ Finish(Step("NextInsight", key), "EmptyBatch", <<>>)
         /\ UNCHANGED <<latestAnalysis, sessionVars, ingest, inflight>>
    ELSE LET idx == (IF Has(userToInsightIndex, key)
                     THEN userToInsightIndex[key] ELSE 0) + 1
         IN  IF idx >= Len(latestAnalysis)
             THEN /\ Suspend(Step("NextInsight", key), "NoMoreItems", <<>>, "nomore", 0, <<>>)
                  /\ UNCHANGED <<latestAnalysis, sessionVars, ingest>>
             ELSE /\ userToInsightIndex' = MapSet(userToInsightIndex, key, idx)
                  /\ ShowCard(Step("NextInsight", key), latestAnalysis[idx + 1])
                  /\ UNCHANGED <<latestAnalysis, userToSearchResults, searchObjs,
                                 ingest, inflight>>

\* The handler ending after the 'No more insights' message without line 929.
NextInsightKeep(s) ==
    /\ inflight[s].pc = "nomore"
    /\ inflight' = [inflight EXCEPT ![s] = FreeSlot]
    /\ Finish(Continue("NextInsightReset", s), "none", <<>>)
    /\ UNCHANGED <<latestAnalysis, sessionVars, ingest>>

\* Line 929: userToInsightIndex.set(userKey, 0) after the await
NextInsightReset(s) ==
    /\ inflight[s].pc = "nomore"
    /\ userToInsightIndex' = MapSet(userToInsightIndex, inflight[s].key, 0)
    /\ inflight' = [inflight EXCEPT ![s] = FreeSlot]
    /\ Finish(Continue("NextInsightReset", s), "none", <<>>)
    /\ UNCHANGED <<latestAnalysis, userToSearchResults, searchObjs, ingest>>

\* Lines 787-796: latestAnalysis.filter(...)
SearchMatches(keyword) ==
    Filter(latestAnalysis,
           {latestAnalysis[i].ref : i \in
               {j \in 1..Len(latestAnalysis) : Matches(latestAnalysis[j], keyword)}})

\* The keyword taken without trimming.
KeywordUntrimmed(arg) == ToLowerCase(arg)

\* Lines 733 and 777: the keyword of a message that is /search_insights
\* followed by arg.  The message is trimmed, and its end is the end of arg;
\* the text after the command is trimmed and put in lower case.
KeywordOf(arg) == ToLowerCase(Trim(TrimEnd(arg)))

\* /search_insights dropping the search context it had when nothing matches.
SearchInsightsForgetting(key, arg) ==
    LET keyword == KeywordOf(arg)
        act == [Step("SearchInsights", key) EXCEPT !.arg = arg, !.keyword = keyword]
        matches == SearchMatches(keyword)
        addr == NewAddr(searchObjs)
    IN  IF keyword = <<>>
           THEN /\ Finish(act, "MissingKeyword", <<>>)
                /\ UNCHANGED <<latestAnalysis, sessionVars, ingest, inflight>>
           ELSE IF Len(latestAnalysis) = 0
           THEN /\ Finish(act, "EmptyBatch", <<>>)
                /\ UNCHANGED <<latestAnalysis, sessionVars, ingest, inflight>>
           ELSE IF \E i \in 1..Len(latestAnalysis) : InThrows(latestAnalysis[i].analysis)
           THEN /\ Finish(act, "Threw", <<>>)
                /\ UNCHANGED <<latestAnalysis, sessionVars, ingest, inflight>>
           ELSE IF matches = <<>>
           THEN /\ Finish(act, "NoMatches", <<>>)
                /\ userToSearchResults' = MapDelete(userToSearchResults, key)
                /\ searchObjs' = Collect(searchObjs, userToSearchResults', inflight)
                /\ UNCHANGED <<latestAnalysis, userToInsightIndex, ingest, inflight>>
           ELSE /\ userToSearchResults' = MapSet(userToSearchResults, key, addr)
                /\ IF CardThrows(matches[1].analysis)
                   THEN /\ Finish(act, "Threw", <<>>)
                        /\ UNCHANGED inflight
                   ELSE Suspend(act, "Card", <<matches[1]>>,
                                "searchShown", 0, <<matches[1]>>)
                /\ searchObjs' =
                      Collect(MapSet(searchObjs, addr, [matches |-> matches, idx |-> 0]),
                              userToSearchResults', inflight')
                /\ UNCHANGED <<latestAnalysis, userToInsightIndex, ingest>>

\* Lines 776-809: /search_insights followed by arg, up to the await of the
\* card
SearchInsights(key, arg) ==
    LET keyword == KeywordOf(arg)
        act == [Step("SearchInsights", key) EXCEPT !.arg = arg, !.keyword = keyword]
        matches == SearchMatches(keyword)
        addr == NewAddr(searchObjs)
    IN  IF keyword = <<>>
           THEN /\ Finish(act, "MissingKeyword", <<>>)
                /\ UNCHANGED <<latestAnalysis, sessionVars, ingest, inflight>>
           ELSE IF Len(latestAnalysis) = 0
           THEN /\ Finish(act, "EmptyBatch", <<>>)
                /\ UNCHANGED <<latestAnalysis, sessionVars, ingest, inflight>>
           ELSE IF \E i \in 1..Len(latestAnalysis) : InThrows(latestAnalysis[i].analysis)
           THEN /\ Finish(act, "Threw", <<>>)
                /\ UNCHANGED <<latestAnalysis, sessionVars, ingest, inflight>>
           ELSE IF matches = <<>>
           THEN /\ Finish(act, "NoMatches", <<>>)
                /\ UNCHANGED <<latestAnalysis, sessionVars, ingest, inflight>>
           ELSE /\ userToSearchResults' = MapSet(userToSearchResults, key, addr)
                /\ IF CardThrows(matches[1].analysis)
                   THEN /\ Finish(act, "Threw", <<>>)
                        /\ UNCHANGED inflight
                   ELSE Suspend(act, "Card", <<matches[1]>>,
                                "searchShown", 0, <<matches[1]>>)
                /\ searchObjs' =
                      Collect(MapSet(searchObjs, addr, [matches |-> matches, idx |-> 0]),
                              userToSearchResults', inflight')
                /\ UNCHANGED <<latestAnalysis, userToInsightIndex, ingest>>

\* Line 825: userToInsightIndex.set(userKey, latestAnalysis.indexOf(matches[0]))
SearchTrack(s) ==
    /\ inflight[s].pc = "searchShown"
    /\ userToInsightIndex' =
          MapSet(userToInsightIndex, inflight[s].key,
                 IndexOf(latestAnalysis, inflight[s].res))
    /\ inflight' = [inflight EXCEPT ![s] = FreeSlot]
    /\ Finish(Continue("SearchTrack", s), "none", <<>>)
    /\ UNCHANGED <<latestAnalysis, userToSearchResults, searchObjs, ingest>>

\* Lines 830-849: /next_search_result, up to the first await
NextSearchResult(key) ==
    LET act == Step("NextSearchResult", key)
    IN  IF ~Has(userToSearchResults, key)
           \/ searchObjs[userToSearchResults[key]].matches = <<>>
        THEN /\ Finish(act, "NoActiveSearch", <<>>)
             /\ UNCHANGED <<latestAnalysis, sessionVars, ingest, inflight>>
        ELSE LET addr == userToSearchResults[key]
                 search == [searchObjs[addr] EXCEPT !.idx = @ + 1]
             IN  /\ IF search.idx >= Len(search.matches)
                    THEN Suspend(act, "NoMoreResults", <<>>, "exhausted", 0, <<>>)
                    ELSE IF CardThrows(search.matches[search.idx + 1].analysis)
                    THEN /\ Finish(act, "Threw", <<>>)
                         /\ UNCHANGED inflight
                    ELSE Suspend(act, "Card", <<search.matches[search.idx + 1]>>,
                                 "nextShown", addr, <<>>)
                 /\ searchObjs' = Collect([searchObjs EXCEPT ![addr] = search],
                                          userToSearchResults, inflight')
                 /\ UNCHANGED <<latestAnalysis, userToInsightIndex,
                                userToSearchResults, ingest>>

\* Line 839: userToSearchResults.delete(userKey) after the await
NextSearchDelete(s) ==
    /\ inflight[s].pc = "exhausted"
    /\ userToSearchResults' = MapDelete(userToSearchResults, inflight[s].key)
    /\ inflight' = [inflight EXCEPT ![s] = FreeSlot]
    /\ searchObjs' = Collect(searchObjs, userToSearchResults', inflight')
    /\ Finish(Continue("NextSearchDelete", s), "none", <<>>)
    /\ UNCHANGED <<latestAnalysis, userToInsightIndex, ingest>>

\* Line 867: userToInsightIndex.set(userKey,
\*               latestAnalysis.indexOf(search.matches[search.idx]))
NextSearchTrack(s) ==
    LET search == searchObjs[inflight[s].obj]
    IN  /\ inflight[s].pc = "nextShown"
        /\ userToInsightIndex' =
              MapSet(userToInsightIndex, inflight[s].key,
                     IndexOf(latestAnalysis, At(search.matches, search.idx)))
        /\ inflight' = [inflight EXCEPT ![s] = FreeSlot]
        /\ searchObjs' = Collect(searchObjs, userToSearchResults, inflight')
        /\ Finish(Continue("NextSearchTrack", s), "none", <<>>)
        /\ UNCHANGED <<latestAnalysis, userToSearchResults, ingest>>

\* Lines 872-890: /ask_about_current question, up to the await of prompt.send
AskAboutCurrent(key, question) ==
    LET act == [Step("AskAboutCurrent", key) EXCEPT !.question = question]
    IN  IF ~Has(userToInsightIndex, key)
              \/ At(latestAnalysis, userToInsightIndex[key]) = <<>>
           THEN /\ Finish(act, "NoCurrentSelection", <<>>)
                /\ UNCHANGED <<latestAnalysis, sessionVars, ingest, inflight>>
           ELSE IF question = ""
           THEN /\ Finish(act, "MissingQuestion", <<>>)
                /\ UNCHANGED <<latestAnalysis, sessionVars, ingest, inflight>>
           ELSE /\ HasFreeSlot
                /\ inflight' = [inflight EXCEPT ![FreeSlotId] =
                      Suspended("asking", key, 0,
                                At(latestAnalysis, userToInsightIndex[key]))]
                /\ Did(act, 0, "none",
                       At(latestAnalysis, userToInsightIndex[key]), TRUE)
                /\ UNCHANGED <<latestAnalysis, sessionVars, ingest>>

\* The answer handled with the cursor dropped when the provider fails.
AskReturnForgetting(s, reply) ==
    /\ inflight[s].pc = "asking"
    /\ Finish(Continue("AskReturn", s),
              IF reply.kind = "throws" THEN "AnswerFailed"
              ELSE IF Trim(reply.content) = <<>> THEN "NoAnswer" ELSE "Answer",
              <<>>)
    /\ userToInsightIndex' =
          IF reply.kind = "throws" THEN MapDelete(userToInsightIndex, inflight[s].key)
          ELSE userToInsightIndex
    /\ inflight' = [inflight EXCEPT ![s] = FreeSlot]
    /\ UNCHANGED <<latestAnalysis, userToSearchResults, searchObjs, ingest>>

\* Lines 890-895: prompt.send(question) settles with reply
AskReturn(s, reply) ==
    /\ inflight[s].pc = "asking"
    /\ Finish(Continue("AskReturn", s),
              IF reply.kind = "throws" THEN "AnswerFailed"
              ELSE IF Trim(reply.content) = <<>> THEN "NoAnswer" ELSE "Answer",
              <<>>)
    /\ inflight' = [inflight EXCEPT ![s] = FreeSlot]
    /\ UNCHANGED <<latestAnalysis, sessionVars, ingest>>

\* The default branch emptying the latest batch.
FreeTextDroppingBatch(key) ==
    /\ Finish(Step("FreeText", key), "Echo", <<>>)
    /\ latestAnalysis' = <<>>
    /\ UNCHANGED <<sessionVars, ingest, inflight>>

\* Lines 950-951: any other text is echoed with the list of commands
FreeText(key) ==
    /\ Finish(Step("FreeText", key), "Echo", <<>>)
    /\ UNCHANGED <<latestAnalysis, sessionVars, ingest, inflight>>

-----------------------------------------------------------------------------
(* The program *)

Questions == { "", "why" }
AskReplies == { Content(<<"ok">>), Content(<<Space>>), Throws("rate limit") }

\* A message of conversation key arrives and its handler runs to its first
\* await that is followed by a change of state, or to its end.
Command(key, keywords) ==
    \/ About(key)
    \/ LatestInsight(key)
    \/ ShowInsights(key)
    \/ NextInsight(key)
    \/ \E arg \in keywords : SearchInsights(key, arg)
    \/ NextSearchResult(key)
    \/ \E question \in Questions : AskAboutCurrent(key, question)
    \/ FreeText(key)

\* A suspended handler runs on from its await.
Resume(s) ==
    \/ NextInsightReset(s)
    \/ SearchTrack(s)
    \/ NextSearchDelete(s)
    \/ NextSearchTrack(s)
    \/ \E reply \in AskReplies : AskReturn(s, reply)

MessageStep(keys, keywords) ==
    /\ last.act = "none"
    /\ \/ \E key \in keys : Command(key, keywords)
       \/ \E s \in Slots : Resume(s)
    /\ UNCHANGED latestFeedback

\* Two conversations next to the ingestion endpoint.
Keys == { "A", "B" }
PairBodies == { <<ItemC, ItemB>>, <<ItemA, ItemBadUrl>> }
PairReplies == { Content(<<"{good}">>), Content(<<>>) }
PairKeywords == { <<>>, <<Space, "B", "o", "t">> }

Next ==
    \/ IngestStep(PairBodies, PairReplies, FALSE)
    \/ MessageStep(Keys, PairKeywords)
    \/ Settle

Spec == Init /\ [][Next]_vars

\* One conversation next to the ingestion endpoint, with more kinds of batch.
NavBodies == { <<>>, <<ItemA>>, <<ItemC, ItemB>>, <<ItemA, ItemBadUrl>> }
NavReplies == { Content(<<"{good}">>), Content(<<"{other}">>),
                Content(<<"{nopriority}">>), Content(<<>>), Content(<<"7">>) }
Keywords == { <<>>, <<Space, Space>>, <<Space, "B", "o", "t">>, <<Space, "a", "p", "i">>,
              <<Space, "o", "h", Space>> }

NextOne ==
    \/ IngestStep(NavBodies, NavReplies, TRUE)
    \/ MessageStep({"A"}, Keywords)
    \/ Settle

SpecOne == Init /\ [][NextOne]_vars

-----------------------------------------------------------------------------
(* The first index.ts: latestFeedback next to latestAnalysis *)

\* Lines 178-192: the request arrives; an invalid body is answered 400;
\* otherwise line 190 stores the items in latestFeedback and
\* analyzeFeedbackToolHandler runs up to its first await.
CachedIngestReceive(g, feedback) ==
    /\ ingest[g].pc = "idle"
    /\ g > 1 => ingest[g - 1].pc # "idle"
    /\ IF ~AnalyzeFeedbackInputSchema(feedback)
       THEN /\ ingest' = [ingest EXCEPT ![g] = Responded]
            /\ Did(Step("IngestReceive", ""), g, "400", <<>>, FALSE)
            /\ UNCHANGED latestFeedback
       ELSE /\ latestFeedback' = feedback
            /\ ingest' = [ingest EXCEPT ![g] =
                  [IdleIngest EXCEPT
                      !.pc = IF feedback = <<>> THEN "returning" ELSE "analyzing",
                      !.feedback = feedback,
                      !.i = 1,
                      !.calls = IF feedback = <<>> THEN 0 ELSE 1]]
            /\ Did(Step("IngestReceive", ""), g, "none", <<>>, feedback # <<>>)
    /\ UNCHANGED <<latestAnalysis, sessionVars, inflight>>

\* Lines 195-203: the handler has returned; the results become
\* latestAnalysis, and the output is validated and answered.
CachedIngestPublish(g) ==
    LET st == ingest[g]
    IN  /\ st.pc = "returning"
        /\ latestAnalysis' = st.analyzedResults
        /\ ingest' = [ingest EXCEPT ![g] = Responded]
        /\ Did(Step("IngestPublish", ""), g,
               IF AnalyzeFeedbackOutputSchema(st.analyzedResults) THEN "200" ELSE "500",
               <<>>, FALSE)
        /\ UNCHANGED <<latestFeedback, sessionVars, inflight>>

\* Lines 234-299: createFeedbackAnalysisCard of the first index.ts builds a
\* card of its own for an analysis with an error; ('error' in analysis)
\* throws for an analysis that is no object, and priority.toUpperCase()
\* for one without a priority.
CachedCardThrows(a) ==
    \/ InThrows(a)
    \/ ~HasKey(a, "error") /\ "priority" \notin DOMAIN a.f

\* Lines 336-337: hello is answered with a greeting.
CachedHello(key) ==
    /\ Finish(Step("Hello", key), "Hello", <<>>)
    /\ UNCHANGED <<latestAnalysis, latestFeedback, sessionVars, ingest, inflight>>

\* Lines 338-351: /show_insights, up to the await of the send that announces
\* the results.
CachedShowInsights(key) ==
    LET act == Step("ShowInsights", key)
    IN  /\ IF Len(latestFeedback) = 0
           THEN /\ Finish(act, "NoFeedback", <<>>)
                /\ UNCHANGED inflight
           ELSE IF Len(latestAnalysis) = 0
           THEN /\ Finish(act, "NoAnalysis", <<>>)
                /\ UNCHANGED inflight
           ELSE Suspend(act, "Getting", <<>>, "getting", 0, <<>>)
        /\ UNCHANGED <<latestAnalysis, latestFeedback, sessionVars, ingest>>

\* Lines 352-374: the loop over latestAnalysis as it is after that await: the
\* card of each result is sent, until building one throws.
CachedShowCards(s) ==
    /\ inflight[s].pc = "getting"
    /\ inflight' = [inflight EXCEPT ![s] = FreeSlot]
    /\ Finish(Continue("ShowCards", s),
              IF \E i \in 1..Len(latestAnalysis) : CachedCardThrows(latestAnalysis[i].analysis)
              THEN "Threw"
              ELSE IF latestAnalysis = <<>> THEN "NoValid" ELSE "Cards",
              latestAnalysis)
    /\ UNCHANGED <<latestAnalysis, latestFeedback, sessionVars, ingest>>

\* Lines 375-392: any other text goes to the provider and its answer, or an
\* apology, is sent.
CachedFreeText(key) ==
    /\ Did(Step("FreeText", key), 0, "Chat", <<>>, TRUE)
    /\ UNCHANGED <<latestAnalysis, latestFeedback, sessionVars, ingest, inflight>>

CachedIngestStep(bodies, replies) ==
    /\ last.act = "none"
    /\ \E g \in Ingests :
          \/ \E feedback \in bodies : CachedIngestReceive(g, feedback)
          \/ \E reply \in replies : ProviderReturn(g, reply) /\ UNCHANGED latestFeedback
          \/ CachedIngestPublish(g)

CachedMessageStep(keys) ==
    /\ last.act = "none"
    /\ \/ \E key \in keys :
             \/ CachedHello(key)
             \/ CachedShowInsights(key)
             \/ CachedFreeText(key)
       \/ \E s \in Slots : CachedShowCards(s)

NextCached ==
    \/ CachedIngestStep(NavBodies, NavReplies)
    \/ CachedMessageStep({"A"})
    \/ Settle

\* The first index.ts: its ingestion endpoint, with overlapping requests,
\* next to one conversation.
SpecCached == Init /\ [][NextCached]_vars

-----------------------------------------------------------------------------
(* Properties of the ingestion endpoint *)

\* The request whose step was just taken, as it was before the step: its
\* items, the provider's answers so far, the results pushed so far.
Before == last.before.ingest[last.g]

\* The provider's answer carries no usable analysis: the call failed, there
\* is no content, or the content is not JSON once the fences are stripped.
Unusable(reply) ==
    \/ reply.kind = "throws"
    \/ reply.content = <<>>
    \/ ~JsonParses(StripFences(reply.content))

IsFailure(r) == HasKey(r.analysis, "error")

\* C1: a published batch has exactly one result per item of the request, in
\* item order, each carrying the id, source and url of its item, whatever
\* the provider answered.
C1_OneResultPerItem ==
    last.act = "IngestPublish" =>
        /\ Len(latestAnalysis) = Len(Before.feedback)
        /\ \A i \in 1..Len(Before.feedback) :
              /\ latestAnalysis[i].originalId = Before.feedback[i].id
              /\ latestAnalysis[i].originalSource = Before.feedback[i].source
              /\ latestAnalysis[i].originalUrl = Before.feedback[i].url

\* C5: in a published batch every item whose analysis failed has a Failure
\* at its own index, and every other item has at its index the analysis the
\* provider returned for it.
C5_FailureAtItsOwnIndex ==
    last.act = "IngestPublish" =>
        \A i \in 1..Len(Before.feedback) :
            /\ i <= Len(latestAnalysis)
            /\ latestAnalysis[i].originalId = Before.feedback[i].id
            /\ IF Unusable(Before.replies[i])
               THEN IsFailure(latestAnalysis[i])
               ELSE latestAnalysis[i].analysis =
                       JsonParse(StripFences(Before.replies[i].content))

\* The results pushed by the step just taken, a step of the analysis loop.
Pushed ==
    SubSeq(ingest[last.g].analyzedResults,
           Len(Before.analyzedResults) + 1, Len(ingest[last.g].analyzedResults))

\* C6: each answer of the provider gives exactly one outcome: "No AI content"
\* for no content, "AI output not valid JSON" with the unstripped content for
\* content that is not JSON, the provider's message for a failed call, and
\* the parsed analysis, which is not a Failure, for content that parses.
C6_OneOutcomePerAnswer ==
    last.act = "ProviderReturn" =>
        LET reply == ingest[last.g].replies[Len(ingest[last.g].replies)]
        IN  /\ Len(Pushed) = 1
            /\ Pushed[1].analysis =
                  IF reply.kind = "throws" THEN JObj([error |-> reply.message])
                  ELSE IF reply.content = <<>> THEN JObj([error |-> "No AI content"])
                  ELSE IF ~JsonParses(StripFences(reply.content))
                  THEN JObj([error |-> "AI output not valid JSON",
                             rawOutput |-> reply.content])
                  ELSE JsonParse(StripFences(reply.content))
            /\ ~Unusable(reply) => ~IsFailure(Pushed[1])

\* C7: every result of the latest batch that is not a Failure has a priority
\* among low, medium and high.
C7_SuccessHasKnownPriority ==
    \A i \in 1..Len(latestAnalysis) :
        ~IsFailure(latestAnalysis[i]) =>
            /\ HasKey(latestAnalysis[i].analysis, "priority")
            /\ latestAnalysis[i].analysis.f.priority \in Priorities

-----------------------------------------------------------------------------
(* Properties of the publication *)

\* C2: in the state a publication leaves, no conversation has a cursor or a
\* search context, whatever the conversations did before.
C2_PublicationClearsSessions ==
    last.act = "IngestPublish" =>
        \A key \in Keys :
            ~Has(userToInsightIndex, key) /\ ~Has(userToSearchResults, key)

\* C2 witness: a publication in a state where one conversation had a cursor
\* and the other a search context.
C2_Witness ==
    /\ last.act = "IngestPublish"
    /\ Has(last.before.userToInsightIndex, "A")
    /\ Has(last.before.userToSearchResults, "B")
    /\ latestAnalysis # last.before.latestAnalysis

C4_InvalidBatchRejected ==
    last.act = "IngestReceive" =>
        IF last.kind = "400"
        THEN /\ ~last.called
             /\ ingest[last.g] = Responded
             /\ latestAnalysis = last.before.latestAnalysis
             /\ userToInsightIndex = last.before.userToInsightIndex
             /\ userToSearchResults = last.before.userToSearchResults
             /\ searchObjs = last.before.searchObjs
        ELSE \A i \in 1..Len(ingest[last.g].feedback) :
                FeedbackItemSchema(ingest[last.g].feedback[i])

\* C4 witness: a request is rejected while there is a batch, a cursor and a
\* search context to lose.
C4_Witness ==
    /\ last.act = "IngestReceive"
    /\ last.kind = "400"
    /\ latestAnalysis # <<>>
    /\ userToInsightIndex # EmptyMap
    /\ userToSearchResults # EmptyMap

-----------------------------------------------------------------------------
(* Properties of the conversations *)

\* What the maps hold for a conversation: its cursor and its search context
\* (the matches and the position), each as a sequence of at most one element.
CursorOf(cursors, key) == IF Has(cursors, key) THEN <<cursors[key]>> ELSE <<>>
SearchOf(searches, objs, key) ==
    IF Has(searches, key) THEN <<objs[searches[key]]>> ELSE <<>>

Cursor(key) == CursorOf(userToInsightIndex, key)
Search(key) == SearchOf(userToSearchResults, searchObjs, key)
CursorBefore(key) == CursorOf(last.before.userToInsightIndex, key)
SearchBefore(key) ==
    SearchOf(last.before.userToSearchResults, last.before.searchObjs, key)

\* The handler of conversation key that the step just taken resumed.
Resumed == last.before.inflight[last.slot]

\* The step just taken is a step of the message handler.
HandlerStep == last.key # ""

\* The cursor a step of conversation key leaves, from the latest batch, the
\* conversation's own cursor and the handler's own locals.
OwnCursor(key) ==
    LET c == CursorBefore(key)
        n == Len(latestAnalysis)
        idx == (IF c = <<>> THEN 0 ELSE c[1]) + 1
    IN  CASE last.act = "LatestInsight" -> IF n = 0 THEN c ELSE <<n - 1>>
          [] last.act = "ShowInsights" -> IF n = 0 THEN c ELSE <<0>>
          [] last.act = "NextInsight" -> IF n = 0 \/ idx >= n THEN c ELSE <<idx>>
          [] last.act = "NextInsightReset" -> <<0>>
          [] last.act = "SearchTrack" ->
                <<IndexOf(latestAnalysis, Resumed.res)>>
          [] last.act = "NextSearchTrack" ->
                LET search == last.before.searchObjs[Resumed.obj]
                IN  <<IndexOf(latestAnalysis, At(search.matches, search.idx))>>
          [] OTHER -> c

\* The search context a step of conversation key leaves, from the latest
\* batch and the conversation's own search context.
OwnSearch(key) ==
    LET sr == SearchBefore(key)
    IN  CASE last.act = "SearchInsights" ->
                IF \/ last.keyword = <<>>
                   \/ \E i \in 1..Len(latestAnalysis) :
                         InThrows(latestAnalysis[i].analysis)
                   \/ SearchMatches(last.keyword) = <<>>
                THEN sr
                ELSE <<[matches |-> SearchMatches(last.keyword), idx |-> 0]>>
          [] last.act = "NextSearchResult" ->
                IF sr = <<>> THEN sr ELSE <<[sr[1] EXCEPT !.idx = @ + 1]>>
          [] last.act = "NextSearchDelete" -> <<>>
          [] OTHER -> sr

\* C8: a step of the handler of one conversation leaves the cursor and the
\* search context of every other conversation as they were, and what it
\* leaves for its own conversation is determined by the latest batch, that
\* conversation's own entries and the handler's locals.
C8_ConversationsAreIsolated ==
    HandlerStep =>
        /\ \A other \in Keys \ {last.key} :
              /\ Cursor(other) = CursorBefore(other)
              /\ Search(other) = SearchBefore(other)
        /\ Cursor(last.key) = OwnCursor(last.key)
        /\ Search(last.key) = OwnSearch(last.key)

\* C8 witness: one conversation exhausts its search and its search context
\* is deleted while the other has a cursor and a search context of its own.
C8_Witness ==
    /\ last.act = "NextSearchDelete"
    /\ last.key = "A"
    /\ SearchBefore("A") # <<>>
    /\ Search("A") = <<>>
    /\ Cursor("B") # <<>>
    /\ Search("B") # <<>>
    /\ Search("B") # SearchBefore("A")

-----------------------------------------------------------------------------
(* Properties of paging *)

\* Viewing(i): the conversation's cursor is an index of the latest batch.
Viewing(key) ==
    /\ CursorBefore(key) # <<>>
    /\ CursorBefore(key)[1] >= 0
    /\ CursorBefore(key)[1] < Len(last.before.latestAnalysis)

\* C9: /next_insight with the cursor at index i of the latest batch moves
\* the cursor to i+1 when i+1 is an index of the batch; otherwise it sends
\* 'No more insights' and is left with line 929 to run, and that step sets
\* the cursor to 0.
C9_NextInsight ==
    /\ last.act = "NextInsight" /\ Viewing(last.key) =>
          LET i == CursorBefore(last.key)[1]
          IN  IF i + 1 < Len(latestAnalysis)
              THEN /\ Cursor(last.key) = <<i + 1>>
                   /\ last.kind # "NoMoreItems"
                   /\ inflight = last.before.inflight
              ELSE /\ last.kind = "NoMoreItems"
                   /\ \E s \in Slots :
                         /\ last.before.inflight[s].pc = "free"
                         /\ inflight[s] = Suspended("nomore", last.key, 0, <<>>)
    /\ last.act = "NextInsightReset" => Cursor(last.key) = <<0>>

\* C9 witness: on a batch of two results the conversation has paged to the
\* second, /next_insight has sent 'No more insights', and the handler has
\* set the cursor from 1 to 0.
C9_Witness ==
    /\ last.act = "NextInsightReset"
    /\ Len(latestAnalysis) = 2
    /\ CursorBefore(last.key) = <<1>>
    /\ Cursor(last.key) = <<0>>

-----------------------------------------------------------------------------
(* Properties of the search *)

\* Searching(matches, p): the conversation has a search context whose
\* position is an index of its matches.
Searching(key) ==
    /\ SearchBefore(key) # <<>>
    /\ SearchBefore(key)[1].idx >= 0
    /\ SearchBefore(key)[1].idx < Len(SearchBefore(key)[1].matches)

\* C10: /next_search_result with the search at position p moves it to p+1
\* and shows the card of the match at p+1 when p+1 is an index of the
\* matches; otherwise it sends 'No more search results' and is left with
\* line 839 to run, and that step removes the search context; without a
\* search context it reports that there is no active search and changes
\* nothing.
C10_NextSearchResult ==
    /\ last.act = "NextSearchResult" /\ Searching(last.key) =>
          LET search == SearchBefore(last.key)[1]
          IN  IF search.idx + 1 < Len(search.matches)
              THEN /\ Search(last.key) = <<[search EXCEPT !.idx = search.idx + 1]>>
                   /\ last.kind = "Card"
                   /\ last.card = <<search.matches[search.idx + 2]>>
              ELSE /\ last.kind = "NoMoreResults"
                   /\ \E s \in Slots :
                         /\ last.before.inflight[s].pc = "free"
                         /\ inflight[s] = Suspended("exhausted", last.key, 0, <<>>)
    /\ last.act = "NextSearchDelete" => Search(last.key) = <<>>
    /\ last.act = "NextSearchResult" /\ SearchBefore(last.key) = <<>> =>
          /\ last.kind = "NoActiveSearch"
          /\ latestAnalysis = last.before.latestAnalysis
          /\ userToInsightIndex = last.before.userToInsightIndex
          /\ userToSearchResults = last.before.userToSearchResults
          /\ searchObjs = last.before.searchObjs
          /\ inflight = last.before.inflight

\* C11: no search context, in any state, holds a match that is a Failure,
\* whatever the keyword and the batch.
C11_NoFailureIsMatched ==
    \A a \in DOMAIN searchObjs :
        \A i \in 1..Len(searchObjs[a].matches) : ~IsFailure(searchObjs[a].matches[i])

\* C11 witness: a search has stored its matches on a batch that holds a
\* Failure whose source contains the keyword.
C11_Witness ==
    /\ last.act = "SearchInsights"
    /\ Search(last.key) # <<>>
    /\ Search(last.key) # SearchBefore(last.key)
    /\ \E i \in 1..Len(latestAnalysis) :
          /\ IsFailure(latestAnalysis[i])
          /\ Includes(ToLowerCase(OrEmpty(latestAnalysis[i].originalSource)),
                      last.keyword)

\* The keyword occurs, without regard to case, in the summary of the result,
\* in one of its pain points, or in its source followed by its url.
Occurs(r, keyword) ==
    LET a == r.analysis
        sourceAndUrl == OrEmpty(r.originalSource) \o OrEmpty(r.originalUrl)
    IN  \/ /\ HasKey(a, "summary")
           /\ Includes(ToLowerCase(a.f.summary), keyword)
        \/ /\ HasKey(a, "painPoints")
           /\ \E i \in 1..Len(a.f.painPoints) :
                 Includes(ToLowerCase(a.f.painPoints[i]), keyword)
        \/ Includes(ToLowerCase(sourceAndUrl), keyword)

\* The results of the latest batch that are not Failures and in which the
\* keyword occurs, in batch order.
Expected(keyword) ==
    Filter(latestAnalysis,
           {latestAnalysis[i].ref : i \in
               {j \in 1..Len(latestAnalysis) :
                   /\ ~IsFailure(latestAnalysis[j])
                   /\ Occurs(latestAnalysis[j], keyword)}})

\* C12: /search_insights with a keyword on a batch that is not empty stores
\* as its matches exactly the results that are not Failures and in which the
\* keyword occurs in the summary, a pain point or the source followed by the
\* url, in batch order; when there is none it reports that nothing matches.
C12_MatchesAreExact ==
    last.act = "SearchInsights" /\ last.keyword # <<>> /\ latestAnalysis # <<>> =>
        IF Expected(last.keyword) = <<>>
        THEN last.kind = "NoMatches"
        ELSE Search(last.key) = <<[matches |-> Expected(last.keyword), idx |-> 0]>>

\* The filter of /search_insights runs to its end and finds a match.
FindsMatch ==
    /\ last.act = "SearchInsights"
    /\ last.keyword # <<>>
    /\ \A i \in 1..Len(latestAnalysis) : ~InThrows(latestAnalysis[i].analysis)
    /\ SearchMatches(last.keyword) # <<>>

\* C13: a /search_insights that finds a match stores the matches, in batch
\* order, with position 0, shows the first and is left with line 825 to
\* run; that step sets the cursor to the index the first match has in the
\* latest batch, so that the result at the cursor is that match.
C13_SearchSelectsFirstMatch ==
    /\ FindsMatch =>
          LET matches == SearchMatches(last.keyword)
          IN  /\ Search(last.key) = <<[matches |-> matches, idx |-> 0]>>
              /\ last.kind = "Card"
              /\ last.card = <<matches[1]>>
              /\ \E s \in Slots :
                    /\ last.before.inflight[s].pc = "free"
                    /\ inflight[s] =
                          Suspended("searchShown", last.key, 0, <<matches[1]>>)
    /\ last.act = "SearchTrack" =>
          /\ Cursor(last.key) # <<>>
          /\ At(latestAnalysis, Cursor(last.key)[1]) = Resumed.res

\* The step just taken left the latest batch, the cursors, the search
\* contexts and the suspended handlers as they were.
NothingChanged ==
    /\ latestAnalysis = last.before.latestAnalysis
    /\ userToInsightIndex = last.before.userToInsightIndex
    /\ userToSearchResults = last.before.userToSearchResults
    /\ searchObjs = last.before.searchObjs
    /\ inflight = last.before.inflight

\* C14: a /search_insights whose filter finds no match reports that nothing
\* matches and leaves the cursor and the search context the conversation
\* had, matches and position, as they were.
C14_NoMatchesChangesNothing ==
    /\ ( /\ last.act = "SearchInsights"
         /\ last.keyword # <<>>
         /\ latestAnalysis # <<>>
         /\ \A i \in 1..Len(latestAnalysis) : ~InThrows(latestAnalysis[i].analysis)
         /\ SearchMatches(last.keyword) = <<>> )
       => last.kind = "NoMatches"
    /\ last.kind = "NoMatches" => NothingChanged

\* C14 witness: nothing matches while the conversation has a cursor and a
\* search context that has been advanced.
C14_Witness ==
    /\ last.kind = "NoMatches"
    /\ Cursor(last.key) # <<>>
    /\ Search(last.key) # <<>>
    /\ Search(last.key)[1].idx = 1

\* C15: /search_insights followed by nothing or by white space only reports
\* that the keyword is missing, on an empty batch too, and changes nothing;
\* followed by a keyword on an empty batch it reports the empty batch and
\* changes nothing.
C15_MissingKeywordFirst ==
    last.act = "SearchInsights" =>
        IF \A i \in 1..Len(last.arg) : last.arg[i] = Space
        THEN last.kind = "MissingKeyword" /\ NothingChanged
        ELSE latestAnalysis = <<>> => last.kind = "EmptyBatch" /\ NothingChanged

\* C15 witness: white space only for a keyword while the batch is empty.
C15_Witness ==
    /\ last.act = "SearchInsights"
    /\ last.kind = "MissingKeyword"
    /\ last.arg # <<>>
    /\ latestAnalysis = <<>>

\* C16: /show_insights on a batch that is not empty sets the cursor of the
\* conversation to 0, whatever the conversation had, and leaves its search
\* context; on an empty batch it reports the empty batch and changes
\* nothing.
C16_ShowInsightsSetsCursorZero ==
    last.act = "ShowInsights" =>
        IF latestAnalysis = <<>>
        THEN last.kind = "EmptyBatch" /\ NothingChanged
        ELSE /\ Cursor(last.key) = <<0>>
             /\ Search(last.key) = SearchBefore(last.key)
             /\ last.kind # "EmptyBatch"

\* C16 witness: /show_insights takes the cursor from 1 back to 0 while a
\* search is active.
C16_Witness ==
    /\ last.act = "ShowInsights"
    /\ CursorBefore(last.key) = <<1>>
    /\ Cursor(last.key) = <<0>>
    /\ Search(last.key) # <<>>

\* C17: /latest_insight on a batch that is not empty sets the cursor to the
\* last index of the batch and leaves the search context; issued with the
\* cursor there already, as a second /latest_insight is, it changes nothing
\* and answers as the first did.
C17_LatestInsightIdempotent ==
    last.act = "LatestInsight" /\ latestAnalysis # <<>> =>
        LET n == Len(latestAnalysis)
        IN  /\ Cursor(last.key) = <<n - 1>>
            /\ Search(last.key) = SearchBefore(last.key)
            /\ last.kind = IF CardThrows(latestAnalysis[n].analysis)
                           THEN "Threw" ELSE "Card"
            /\ CursorBefore(last.key) = <<n - 1>> => NothingChanged

\* C17 witness: /latest_insight on a batch of two results with the cursor on
\* the second already.
C17_Witness ==
    /\ last.act = "LatestInsight"
    /\ Len(latestAnalysis) = 2
    /\ CursorBefore(last.key) = <<1>>
    /\ Cursor(last.key) = <<1>>
    /\ last.kind = "Card"

-----------------------------------------------------------------------------
(* Properties of /ask_about_current *)

StoredUnchanged ==
    /\ latestAnalysis = last.before.latestAnalysis
    /\ userToInsightIndex = last.before.userToInsightIndex
    /\ userToSearchResults = last.before.userToSearchResults
    /\ searchObjs = last.before.searchObjs

\* C19: neither step of /ask_about_current changes the latest batch, a
\* cursor or a search context, whether the provider answers, answers with
\* nothing or fails; and the result whose analysis goes to the provider is
\* the one at the cursor when the command runs.
C19_AskChangesNothing ==
    /\ last.act = "AskAboutCurrent" =>
          /\ StoredUnchanged
          /\ last.called =>
                /\ last.card # <<>>
                /\ last.card = At(latestAnalysis, CursorBefore(last.key)[1])
                /\ \E s \in Slots :
                      /\ last.before.inflight[s].pc = "free"
                      /\ inflight[s] = Suspended("asking", last.key, 0, last.card)
    /\ last.act = "AskReturn" =>
          /\ StoredUnchanged
          /\ last.kind \in {"Answer", "NoAnswer", "AnswerFailed"}

\* C19 witness: the provider fails on a question of a conversation that has
\* a cursor and a search context.
C19_Witness ==
    /\ last.act = "AskReturn"
    /\ last.kind = "AnswerFailed"
    /\ Cursor(last.key) # <<>>
    /\ Search(last.key) # <<>>

-----------------------------------------------------------------------------
(* Properties of paging over Failures *)

\* C20: when /show_insights, /latest_insight or /next_insight moves the
\* cursor to a result that is a Failure, the command sends the card of that
\* result.
C20_FailuresAreShown ==
    ( /\ last.act \in {"ShowInsights", "LatestInsight", "NextInsight"}
      /\ latestAnalysis # <<>>
      /\ last.kind # "NoMoreItems" )
    => LET shown == At(latestAnalysis, Cursor(last.key)[1])
       IN  /\ shown # <<>>
           /\ IsFailure(shown[1]) => last.kind = "Card" /\ last.card = shown

\* C21: /next_insight from a conversation without a cursor shows no result
\* and sets no cursor, in its first step and in the step of line 929.
C21_NextInsightNeedsCursor ==
    ( /\ last.act \in {"NextInsight", "NextInsightReset"}
      /\ CursorBefore(last.key) = <<>> )
    => Cursor(last.key) = <<>> /\ last.kind # "Card"

-----------------------------------------------------------------------------
(* Properties of the endpoint's answers *)

NonEmptyText(item) == item.text.t = "string" /\ item.text.v # <<>>

\* C22: a request that passes validation has no item with an empty text, and
\* neither has a request whose results are published.
C22_NoEmptyTextAccepted ==
    /\ last.act = "IngestReceive" /\ last.kind # "400" =>
          \A i \in 1..Len(ingest[last.g].feedback) :
              NonEmptyText(ingest[last.g].feedback[i])
    /\ last.act = "IngestPublish" =>
          \A i \in 1..Len(Before.feedback) : NonEmptyText(Before.feedback[i])

\* C23: no step of the message handler changes the latest batch, whatever
\* it reports: after the step the batch is the one the last publication
\* left.
C23_CommandsLeaveTheBatch ==
    HandlerStep => latestAnalysis = last.before.latestAnalysis

\* C23 witness: the search of one conversation is exhausted, on a batch that
\* is not empty, while the other conversation has a cursor.
C23_Witness ==
    /\ last.kind = "NoMoreResults"
    /\ last.key = "A"
    /\ latestAnalysis # <<>>
    /\ Cursor("B") # <<>>

\* C24: text that is no command is answered with one call of the provider
\* and changes no cursor and no search context; /about and /help are
\* answered with the description, without a call of the provider and without
\* a change.
C24_FreeTextGoesToProvider ==
    /\ last.act = "FreeText" => last.called /\ StoredUnchanged
    /\ last.act = "About" =>
          last.kind = "About" /\ ~last.called /\ NothingChanged

-----------------------------------------------------------------------------
(* Properties of the interleavings *)

\* C25: every cursor that is set is an index 0..Len-1 of the latest batch,
\* in every state; a search or an advance of a search that resumes after a
\* publication leaves no cursor.
C25_CursorsAreIndices ==
    \A key \in Keys :
        Cursor(key) # <<>> =>
            Cursor(key)[1] >= 0 /\ Cursor(key)[1] < Len(latestAnalysis)

\* The search context of conversation key before the step is one that
\* /next_search_result has not exhausted.
ActiveBefore(key) ==
    /\ SearchBefore(key) # <<>>
    /\ SearchBefore(key)[1].idx < Len(SearchBefore(key)[1].matches)

\* C26: a search context is removed or replaced only by a publication, by a
\* /search_insights of its conversation, or by the /next_search_result that
\* exhausted it: the delete of line 839 removes no context that is not
\* exhausted.
C26_SearchStaysUntilExhausted ==
    /\ \A key \in Keys :
          ( /\ Has(last.before.userToSearchResults, key)
            /\ ( \/ ~Has(userToSearchResults, key)
                 \/ userToSearchResults[key] # last.before.userToSearchResults[key] ) )
          => \/ last.act = "IngestPublish"
             \/ last.act \in {"SearchInsights", "NextSearchDelete"} /\ last.key = key
    /\ ( last.act = "NextSearchDelete" /\ ActiveBefore(last.key) )
          => Search(last.key) = SearchBefore(last.key)

\* C27: with requests in progress at the same time, the latest batch is the
\* results of one request and never a mixture; it changes only in the step
\* that publishes, which makes it the whole results of the request that
\* returned, whichever request arrived first.
C27_LastPublicationWins ==
    /\ \A i \in 1..Len(latestAnalysis) :
          latestAnalysis[i].ref.gen = latestAnalysis[1].ref.gen
    /\ last.act = "IngestPublish" => latestAnalysis = Before.analyzedResults
    /\ last.act \in {"IngestReceive", "ProviderReturn"} =>
          latestAnalysis = last.before.latestAnalysis

\* C27 witness: the first request publishes after the second, which arrived
\* later, has published: the latest batch goes from the results of the
\* second to the results of the first.
C27_Witness ==
    /\ last.act = "IngestPublish"
    /\ last.g = 1
    /\ last.before.latestAnalysis # <<>>
    /\ last.before.latestAnalysis[1].ref.gen = 2
    /\ latestAnalysis # <<>>
    /\ latestAnalysis[1].ref.gen = 1

\* C28: a request answered with an error (400 or 500) leaves the latest
\* batch, the cursors and the search contexts as they were.
C28_ErrorsChangeNothing ==
    ( /\ last.act \in {"IngestReceive", "IngestPublish"}
      /\ last.kind \in {"400", "500"} )
    => StoredUnchanged

\* C30: every stored search context has at least one match and a position
\* that is an index of its matches, in every state.
C30_SearchContextsWellFormed ==
    \A key \in Keys :
        Search(key) # <<>> =>
            /\ Search(key)[1].matches # <<>>
            /\ Search(key)[1].idx >= 0
            /\ Search(key)[1].idx < Len(Search(key)[1].matches)

\* C29: in the first index.ts the cached items and the cached results
\* are, in every state, those of one request: as many results as items,
\* each result carrying the id of its item.
C29_ItemsAndResultsOfOneRequest ==
    /\ Len(latestAnalysis) = Len(latestFeedback)
    /\ \A i \in 1..Len(latestAnalysis) :
          i <= Len(latestFeedback) =>
              latestAnalysis[i].originalId = latestFeedback[i].id

\* C31: every match of a stored search context is a result of the latest
\* batch, in every state.
C31_MatchesAreOfTheLatestBatch ==
    \A key \in Keys :
        Search(key) # <<>> =>
            \A i \in 1..Len(Search(key)[1].matches) :
                \E j \in 1..Len(latestAnalysis) :
                    latestAnalysis[j].ref = Search(key)[1].matches[i].ref

\* C31 witness: a search context is stored while a /search_insights that
\* started on the batch before is still suspended, holding a result of
\* that replaced batch.
C31_Witness ==
    /\ Search("A") # <<>>
    /\ \E s \in Slots :
          /\ inflight[s].pc = "searchShown"
          /\ inflight[s].res[1].ref.gen # Search("A")[1].matches[1].ref.gen

-----------------------------------------------------------------------------
(* Properties of the analysis loop *)

\* C32: a request of N items makes N calls of the provider, one per item in
\* item order: while item i is awaited i calls have been made and the
\* outcomes of the i-1 items before it are recorded; the call for the next
\* item starts in the step that records the outcome of item i; at
\* publication there have been N calls and N answers.
C32_OneCallPerItem ==
    /\ \A g \in Ingests :
          ingest[g].pc = "analyzing" =>
              /\ ingest[g].i <= Len(ingest[g].feedback)
              /\ ingest[g].calls = ingest[g].i
              /\ Len(ingest[g].replies) = ingest[g].i - 1
              /\ Len(ingest[g].analyzedResults) >= ingest[g].i - 1
    /\ last.act = "ProviderReturn" =>
          /\ ingest[last.g].i = Before.i + 1
          /\ Pushed # <<>>
          /\ \A k \in 1..Len(Pushed) :
                Pushed[k].originalId = Before.feedback[Before.i].id
          /\ last.called = (Before.i < Len(Before.feedback))
          /\ ingest[last.g].calls = Before.calls + (IF last.called THEN 1 ELSE 0)
    /\ last.act = "IngestPublish" =>
          /\ Before.calls = Len(Before.feedback)
          /\ Len(Before.replies) = Len(Before.feedback)

\* C32 witness: the call for the first of two items has failed, its outcome
\* is recorded and the call for the second item is made.
C32_Witness ==
    /\ last.act = "ProviderReturn"
    /\ Len(Before.feedback) = 2
    /\ Before.i = 1
    /\ ingest[last.g].replies[1].kind = "throws"
    /\ last.called
    /\ ingest[last.g].calls = 2

\* C33: a request that has been accepted is in the end published and
\* answered, whatever the provider answers for its items, as long as every
\* call of the provider settles.
C33_AcceptedIsPublished ==
    \A g \in Ingests :
        (ingest[g].pc \in {"analyzing", "returning"})
            ~> (last.act = "IngestPublish" /\ last.g = g /\ ingest[g].pc = "responded")

\* C33 witness: a request of two items is published and answered 200 after
\* the call for its first item failed and the second gave content that is
\* not JSON.
C33_Witness ==
    /\ last.act = "IngestPublish"
    /\ last.kind = "200"
    /\ Len(Before.feedback) = 2
    /\ Before.replies[1].kind = "throws"
    /\ Before.replies[2] = Content(<<"oops">>)
    /\ Len(latestAnalysis) = 2

-----------------------------------------------------------------------------
(* Properties of the cursor next to the search context *)

\* The search context the handler resumed by the step just taken holds.
ResumedSearch == last.before.searchObjs[Resumed.obj]

\* C34: the /next_search_result that exhausts a search leaves the cursor
\* as it was, in the step that reports it and in the step that removes the
\* context; after a /next_search_result that showed a match, line 867 leaves
\* the cursor at the index of that match in the latest batch.
C34_CursorFollowsTheSearch ==
    /\ ( \/ last.act = "NextSearchResult" /\ last.kind = "NoMoreResults"
         \/ last.act = "NextSearchDelete" )
       => Cursor(last.key) = CursorBefore(last.key)
    /\ last.act = "NextSearchTrack" =>
          /\ Cursor(last.key) # <<>>
          /\ At(latestAnalysis, Cursor(last.key)[1]) =
                At(ResumedSearch.matches, ResumedSearch.idx)
          /\ At(latestAnalysis, Cursor(last.key)[1]) # <<>>

\* C35: /show_insights, /latest_insight and /next_insight (both its steps)
\* leave every search context, and the batch, as they were; a
\* /next_search_result goes on from the stored position, wherever the cursor
\* is: the position moves by one over the same matches, and a card it shows
\* is the card of the match at the new position.
C35_PagingLeavesTheSearch ==
    /\ last.act \in {"ShowInsights", "LatestInsight", "NextInsight", "NextInsightReset"} =>
          /\ userToSearchResults = last.before.userToSearchResults
          /\ searchObjs = last.before.searchObjs
          /\ latestAnalysis = last.before.latestAnalysis
    /\ ( /\ last.act = "NextSearchResult"
         /\ SearchBefore(last.key) # <<>>
         /\ SearchBefore(last.key)[1].matches # <<>> ) =>
          /\ Search(last.key) =
                << [SearchBefore(last.key)[1] EXCEPT !.idx = @ + 1] >>
          /\ last.kind = "Card" =>
                last.card = At(Search(last.key)[1].matches, Search(last.key)[1].idx)

\* C35 witness: /next_search_result shows the next match of a search while
\* the cursor, moved by a paging command, is not at the match shown before.
C35_Witness ==
    /\ last.act = "NextSearchResult"
    /\ last.kind = "Card"
    /\ CursorBefore("A") # <<>>
    /\ At(last.before.latestAnalysis, CursorBefore("A")[1]) #
          At(SearchBefore("A")[1].matches, SearchBefore("A")[1].idx)

-----------------------------------------------------------------------------
(* Properties of the empty batch *)

\* C36: a request with a valid body of no items is answered 200 and
\* publishes the empty batch, which replaces the batch before it and clears
\* every cursor and every search context; on the empty batch /show_insights,
\* /latest_insight, /next_insight and /search_insights with a keyword report
\* that there is no batch and change nothing.
C36_EmptyBatch ==
    /\ last.act = "IngestReceive" /\ ingest[last.g].pc = "returning" =>
          ingest[last.g].feedback = <<>> /\ ~last.called
    /\ last.act = "IngestPublish" /\ Before.feedback = <<>> =>
          /\ last.kind = "200"
          /\ latestAnalysis = <<>>
          /\ userToInsightIndex = EmptyMap
          /\ userToSearchResults = EmptyMap
    /\ ( /\ last.before.latestAnalysis = <<>>
         /\ \/ last.act \in {"ShowInsights", "LatestInsight", "NextInsight"}
            \/ last.act = "SearchInsights" /\ last.keyword # <<>> ) =>
          /\ last.kind = "EmptyBatch"
          /\ NothingChanged

\* C36 witness: /next_insight on the empty batch, published while a
\* /search_insights that showed a result of the batch it replaced is still
\* suspended.
C36_Witness ==
    /\ last.act = "NextInsight"
    /\ last.kind = "EmptyBatch"
    /\ latestAnalysis = <<>>
    /\ \A g \in Ingests : ingest[g].pc = "responded"
    /\ \E s \in Slots : inflight[s].pc = "searchShown"

-----------------------------------------------------------------------------
(* Properties of the fences *)

\* The answer the step just taken, a step of the analysis loop, handled, and
\* the item it was the answer for.
Answer == ingest[last.g].replies[Len(ingest[last.g].replies)]
Answered == Before.feedback[Before.i]

\* The content x between the leading and the trailing marker, with or
\* without white space inside the fences.
Fenced(x) ==
    { <<Fence, "json">> \o before \o x \o after \o <<Fence>> :
          before \in { <<>>, <<Space>> }, after \in { <<>>, <<Space>> } }

\* C37: for content x that is JSON, the content made of the leading marker,
\* x and the trailing marker gives the outcome that x alone gives; and
\* content that still holds a marker after the one at its start and the one
\* at its end are removed is not JSON.
C37_FencesAreTransparent ==
    ( last.act = "ProviderReturn" /\ Answer.kind = "content" ) =>
        /\ JsonParses(Answer.content) =>
              \A fenced \in Fenced(Answer.content) :
                  AnalyzeItem(Answered, Content(fenced), last.g,
                              Len(Before.analyzedResults) + 1) = Pushed
        /\ (\E i \in 1..Len(StripFences(Answer.content)) :
                StripFences(Answer.content)[i] = Fence) =>
              /\ Len(Pushed) = 1
              /\ IsFailure(Pushed[1])
              /\ Pushed[1].analysis.f.rawOutput = Answer.content

=============================================================================
